---- MODULE Spec2Model ----
(***************************************************************************)
(* Model of src/vm/abs_state_regs.c: the constant-propagation abstract     *)
(* domain of the eBPF verifier (abstract register file, join, the two      *)
(* transfer functions and the two safety predicates).                      *)
(*                                                                         *)
(* A uint64_t is a tuple <<w3, w2, w1, w0>> of four 16-bit limbs, most     *)
(* significant first, so that every 64-bit value keeps its full width.     *)
(* An int32_t / int16_t is an Integer in its signed range.                 *)
(***************************************************************************)
EXTENDS Integers, FiniteSets, Sequences, TLC

VARIABLES to, call, changes

vars == <<to, call, changes>>

(***************************************************************************)
(* Bit arithmetic                                                          *)
(***************************************************************************)
RECURSIVE BitAnd(_, _)
BitAnd(a, b) ==
    IF a = 0 \/ b = 0 THEN 0
    ELSE (a % 2) * (b % 2) + 2 * BitAnd(a \div 2, b \div 2)

RECURSIVE BitOr(_, _)
BitOr(a, b) ==
    IF a = 0 THEN b
    ELSE IF b = 0 THEN a
    ELSE (IF a % 2 = 1 \/ b % 2 = 1 THEN 1 ELSE 0) + 2 * BitOr(a \div 2, b \div 2)

LimbBase == 65536

Zero64 == <<0, 0, 0, 0>>

\* (uint64_t)x for an int32_t x: sign extension
SExt64(x) ==
    LET s == IF x < 0 THEN LimbBase - 1 ELSE 0
    IN  <<s, s, (x \div LimbBase) % LimbBase, x % LimbBase>>

\* (uint32_t)x for an int32_t x, widened to 64 bits: zero extension
ZExt32(x) == <<0, 0, (x \div LimbBase) % LimbBase, x % LimbBase>>

\* x << 32 on a uint64_t
Shl32(x) == <<x[3], x[4], 0, 0>>

Or64(a, b) == [i \in 1..4 |-> BitOr(a[i], b[i])]

And64(a, b) == [i \in 1..4 |-> BitAnd(a[i], b[i])]

\* u32 without the truncation
u32_keep64(x) == x

\* static uint32_t u32(uint64_t x): truncation to the low 32 bits
u32(x) == <<0, 0, x[3], x[4]>>

(***************************************************************************)
(* Opcode encoding (ebpf.h)                                                *)
(***************************************************************************)
EBPF_CLS_MASK == 7
EBPF_ALU_OP_MASK == 240

EBPF_CLS_LD == 0
EBPF_CLS_LDX == 1
EBPF_CLS_ST == 2
EBPF_CLS_STX == 3
EBPF_CLS_ALU == 4
EBPF_CLS_JMP == 5
EBPF_CLS_ALU64 == 7

EBPF_SRC_IMM == 0
EBPF_SRC_REG == 8

EBPF_SIZE_W == 0
EBPF_SIZE_H == 8
EBPF_SIZE_B == 16
EBPF_SIZE_DW == 24

EBPF_MODE_IMM == 0
EBPF_MODE_MEM == 96

EBPF_OP_LDDW == EBPF_CLS_LD + EBPF_MODE_IMM + EBPF_SIZE_DW
EBPF_OP_LDXW == EBPF_CLS_LDX + EBPF_MODE_MEM + EBPF_SIZE_W
EBPF_OP_LDXH == EBPF_CLS_LDX + EBPF_MODE_MEM + EBPF_SIZE_H
EBPF_OP_LDXB == EBPF_CLS_LDX + EBPF_MODE_MEM + EBPF_SIZE_B
EBPF_OP_LDXDW == EBPF_CLS_LDX + EBPF_MODE_MEM + EBPF_SIZE_DW
EBPF_OP_STW == EBPF_CLS_ST + EBPF_MODE_MEM + EBPF_SIZE_W
EBPF_OP_STH == EBPF_CLS_ST + EBPF_MODE_MEM + EBPF_SIZE_H
EBPF_OP_STB == EBPF_CLS_ST + EBPF_MODE_MEM + EBPF_SIZE_B
EBPF_OP_STDW == EBPF_CLS_ST + EBPF_MODE_MEM + EBPF_SIZE_DW
EBPF_OP_STXW == EBPF_CLS_STX + EBPF_MODE_MEM + EBPF_SIZE_W
EBPF_OP_STXH == EBPF_CLS_STX + EBPF_MODE_MEM + EBPF_SIZE_H
EBPF_OP_STXB == EBPF_CLS_STX + EBPF_MODE_MEM + EBPF_SIZE_B
EBPF_OP_STXDW == EBPF_CLS_STX + EBPF_MODE_MEM + EBPF_SIZE_DW

EBPF_OP_DIV_REG == EBPF_CLS_ALU + EBPF_SRC_REG + 48
EBPF_OP_MOD_REG == EBPF_CLS_ALU + EBPF_SRC_REG + 144
EBPF_OP_DIV64_REG == EBPF_CLS_ALU64 + EBPF_SRC_REG + 48
EBPF_OP_MOD64_REG == EBPF_CLS_ALU64 + EBPF_SRC_REG + 144
EBPF_OP_AND64_IMM == EBPF_CLS_ALU64 + EBPF_SRC_IMM + 80
EBPF_OP_AND64_REG == EBPF_CLS_ALU64 + EBPF_SRC_REG + 80
EBPF_OP_MOV_IMM == EBPF_CLS_ALU + EBPF_SRC_IMM + 176
EBPF_OP_MOV_REG == EBPF_CLS_ALU + EBPF_SRC_REG + 176
EBPF_OP_MOV64_IMM == EBPF_CLS_ALU64 + EBPF_SRC_IMM + 176
EBPF_OP_MOV64_REG == EBPF_CLS_ALU64 + EBPF_SRC_REG + 176

EBPF_OP_JEQ_IMM == EBPF_CLS_JMP + EBPF_SRC_IMM + 16
EBPF_OP_JEQ_REG == EBPF_CLS_JMP + EBPF_SRC_REG + 16
EBPF_OP_JGT_IMM == EBPF_CLS_JMP + EBPF_SRC_IMM + 32
EBPF_OP_JNE_IMM == EBPF_CLS_JMP + EBPF_SRC_IMM + 80
EBPF_OP_JNE_REG == EBPF_CLS_JMP + EBPF_SRC_REG + 80
EBPF_OP_CALL == EBPF_CLS_JMP + EBPF_SRC_IMM + 128
EBPF_OP_EXIT == EBPF_CLS_JMP + EBPF_SRC_IMM + 144

\* ubpf_int.h
STACK_SIZE == 128

(***************************************************************************)
(* Abstract values and states (abs_dom.h, abs_interp.h)                    *)
(***************************************************************************)
NumRegs == 11

Regs == 0..(NumRegs - 1)

abs_top == [known |-> FALSE, value |-> Zero64]

abs_const_join(a, b) ==
    IF a.known /\ b.known /\ a.value = b.value THEN a ELSE abs_top

\* the concrete ALU evaluator, for the opcodes the model executes
do_const_alu(opcode, imm, dst_val, src_val) ==
    CASE opcode = EBPF_OP_MOV64_IMM -> SExt64(imm)
      [] opcode = EBPF_OP_MOV64_REG -> src_val
      [] opcode = EBPF_OP_MOV_IMM   -> u32(SExt64(imm))
      [] opcode = EBPF_OP_MOV_REG   -> u32(src_val)
      [] opcode = EBPF_OP_AND64_IMM -> And64(dst_val, SExt64(imm))
      [] opcode = EBPF_OP_AND64_REG -> And64(dst_val, src_val)
      [] OTHER -> dst_val

(***************************************************************************)
(* abs_state_regs.c                                                        *)
(***************************************************************************)
abs_initialize_entry(state) ==
    [state EXCEPT !.reg = [i \in Regs |-> abs_top]]

abs_initialize_unreached(state) ==
    [state EXCEPT !.bot = TRUE]

\* overwrites instead of joining
abs_join_overwrite(state, other) ==
    IF state.bot
    THEN other
    ELSE [state EXCEPT !.reg =
            [r \in Regs |-> IF r >= 1 /\ r < NumRegs
                            THEN other.reg[r]
                            ELSE state.reg[r]]]

abs_join(state, other) ==
    IF state.bot
    THEN other
    ELSE [state EXCEPT !.reg =
            [r \in Regs |-> IF r >= 1 /\ r < NumRegs
                            THEN abs_const_join(state.reg[r], other.reg[r])
                            ELSE state.reg[r]]]

NoError == <<>>

access_width(opcode) ==
    CASE opcode \in {EBPF_OP_LDXB, EBPF_OP_STB, EBPF_OP_STXB} -> 1
      [] opcode \in {EBPF_OP_LDXH, EBPF_OP_STH, EBPF_OP_STXH} -> 2
      [] opcode \in {EBPF_OP_LDXW, EBPF_OP_STW, EBPF_OP_STXW} -> 4
      [] opcode \in {EBPF_OP_LDXDW, EBPF_OP_STDW, EBPF_OP_STXDW} -> 8
      [] OTHER -> -1

\* off by one at the upper ends
abs_bounds_fail_ge(state, inst, pc) ==
    LET width == access_width(inst.opcode)
        is_load == \/ BitAnd(inst.opcode, EBPF_CLS_MASK) = EBPF_CLS_LD
                   \/ BitAnd(inst.opcode, EBPF_CLS_MASK) = EBPF_CLS_LDX
        r == IF is_load THEN inst.src ELSE inst.dst
        fail == IF r = 10
                THEN inst.offset + width >= 0 \/ inst.offset < -STACK_SIZE
                ELSE IF r = 1
                THEN inst.offset < 0 \/ inst.offset + width >= 4096
                ELSE TRUE
    IN  IF width <= 0
        THEN [fail |-> FALSE, errmsg |-> NoError]
        ELSE [fail |-> fail,
              errmsg |-> IF fail
                         THEN <<"out of bounds memory",
                                IF is_load THEN "load" ELSE "store",
                                pc, r, inst.offset>>
                         ELSE NoError]

\* returns the verdict and the value left in *errmsg
abs_bounds_fail(state, inst, pc) ==
    LET width == access_width(inst.opcode)
        is_load == \/ BitAnd(inst.opcode, EBPF_CLS_MASK) = EBPF_CLS_LD
                   \/ BitAnd(inst.opcode, EBPF_CLS_MASK) = EBPF_CLS_LDX
        r == IF is_load THEN inst.src ELSE inst.dst
        fail == IF r = 10
                THEN inst.offset + width > 0 \/ inst.offset < -STACK_SIZE
                ELSE IF r = 1
                THEN inst.offset < 0 \/ inst.offset + width > 4096
                ELSE TRUE
    IN  IF width <= 0
        THEN [fail |-> FALSE, errmsg |-> NoError]
        ELSE [fail |-> fail,
              errmsg |-> IF fail
                         THEN <<"out of bounds memory",
                                IF is_load THEN "load" ELSE "store",
                                pc, r, inst.offset>>
                         ELSE NoError]

abs_divzero_fail(state, inst, pc) ==
    LET div == BitAnd(inst.opcode, EBPF_ALU_OP_MASK)
                 = BitAnd(EBPF_OP_DIV_REG, EBPF_ALU_OP_MASK)
        mod == BitAnd(inst.opcode, EBPF_ALU_OP_MASK)
                 = BitAnd(EBPF_OP_MOD_REG, EBPF_ALU_OP_MASK)
        is64 == BitAnd(inst.opcode, EBPF_CLS_MASK) = EBPF_CLS_ALU64
    IN  IF (div \/ mod)
           /\ (\/ ~state.reg[inst.src].known
               \/ (is64 /\ state.reg[inst.src].value = Zero64)
               \/ (~is64 /\ u32(state.reg[inst.src].value) = Zero64))
        THEN [fail |-> TRUE, errmsg |-> <<"division by zero", pc>>]
        ELSE [fail |-> FALSE, errmsg |-> NoError]

is_mov(opcode) ==
    opcode \in {EBPF_OP_MOV64_IMM, EBPF_OP_MOV64_REG,
                EBPF_OP_MOV_IMM, EBPF_OP_MOV_REG}

is_alu(opcode) ==
    \/ BitAnd(opcode, EBPF_CLS_MASK) = EBPF_CLS_ALU
    \/ BitAnd(opcode, EBPF_CLS_MASK) = EBPF_CLS_ALU64

\* forgets r0
call_clobbers_args_only(r) == r >= 1 /\ r <= 5

\* registers a call makes unknown: the loop over r1..r5, then r0
call_clobbers(r) == (r >= 1 /\ r <= 5) \/ r = 0

abs_execute(to_, from, inst, imm) ==
    LET state ==
          IF inst.opcode = EBPF_OP_LDDW
          THEN [from EXCEPT !.reg[inst.dst].value =
                              Or64(ZExt32(inst.imm), Shl32(SExt64(imm)))]
          ELSE IF inst.opcode = EBPF_OP_CALL
          THEN [from EXCEPT !.reg =
                  [r \in Regs |-> IF call_clobbers(r)
                                  THEN [from.reg[r] EXCEPT !.known = FALSE]
                                  ELSE from.reg[r]]]
          ELSE IF ~is_alu(inst.opcode)
          THEN from
          ELSE IF BitAnd(inst.opcode, EBPF_SRC_REG) # 0
                  /\ ~from.reg[inst.src].known
          THEN [from EXCEPT !.reg[inst.dst].known = FALSE]
          ELSE IF ~from.reg[inst.dst].known /\ ~is_mov(inst.opcode)
          THEN [from EXCEPT !.reg[inst.dst].known = FALSE]
          ELSE [from EXCEPT !.reg[inst.dst] =
                  [known |-> TRUE,
                   value |-> do_const_alu(inst.opcode, inst.imm,
                                          from.reg[inst.dst].value,
                                          from.reg[inst.src].value)]]
    IN  abs_join(to_, state)

abs_execute_assume(to_, from, inst, taken) ==
    LET s1 == IF \/ (taken /\ inst.opcode = EBPF_OP_JEQ_IMM)
                 \/ (~taken /\ inst.opcode = EBPF_OP_JNE_IMM)
              THEN [from EXCEPT !.reg[inst.dst] =
                      [known |-> TRUE, value |-> SExt64(inst.imm)]]
              ELSE from
        state == IF \/ (taken /\ inst.opcode = EBPF_OP_JEQ_REG)
                    \/ (~taken /\ inst.opcode = EBPF_OP_JNE_REG)
                 THEN [s1 EXCEPT !.reg[inst.dst] =
                         [known |-> TRUE, value |-> s1.reg[inst.src].value]]
                 ELSE s1
    IN  abs_join(to_, state)

(***************************************************************************)
(* Inputs                                                                  *)
(***************************************************************************)
MaxVal == 2
MaxGarbage == 1
MaxPc == 1

Val(n) == <<0, 0, 0, n>>

Known(v) == [known |-> TRUE, value |-> v]

\* a top register still carries a value field (left by LDDW or CALL)
Top(v) == [known |-> FALSE, value |-> v]

Cells == {Known(Val(n)) : n \in 1..MaxVal} \cup {Top(Val(n)) : n \in 0..MaxGarbage}

MkState(b, c0, c1, c6) ==
    [bot |-> b,
     reg |-> [r \in Regs |-> CASE r = 0 -> c0
                               [] r = 1 -> c1
                               [] r = 6 -> c6
                               [] OTHER -> abs_top]]

\* register files over r0, r1, r6; the other registers are top
InputStates ==
    {MkState(b, c0, c1, c6) : b \in BOOLEAN, c0 \in {abs_top, Known(Val(1))},
                              c1 \in Cells, c6 \in {abs_top, Known(Val(1))}}

ReachableInputs == {s \in InputStates : ~s.bot}

Inst(op, d, s, off, i) ==
    [opcode |-> op, dst |-> d, src |-> s, offset |-> off, imm |-> i]

NoInst == Inst(0, 0, 0, 0, 0)

DstRegs == {0, 1}
SrcRegs == {1, 6}
Imms == {-1, 1}

ExecInsts ==
    {Inst(EBPF_OP_LDDW, d, 0, 0, i) : d \in DstRegs, i \in Imms}
    \cup {Inst(EBPF_OP_CALL, 0, 0, 0, 0), Inst(EBPF_OP_EXIT, 0, 0, 0, 0)}
    \cup {Inst(EBPF_OP_MOV64_IMM, d, 0, 0, i) : d \in DstRegs, i \in Imms}
    \cup {Inst(op, d, s, 0, 0) : op \in {EBPF_OP_MOV64_REG, EBPF_OP_AND64_REG},
                                 d \in DstRegs, s \in SrcRegs}

\* the second slot of a wide load carries the high word; zero elsewhere
SecondImms(inst) == IF inst.opcode = EBPF_OP_LDDW THEN Imms ELSE {0}

AssumeInsts ==
    {Inst(op, d, 0, 0, i) : op \in {EBPF_OP_JEQ_IMM, EBPF_OP_JNE_IMM, EBPF_OP_JGT_IMM},
                            d \in DstRegs, i \in Imms}
    \cup {Inst(op, d, s, 0, 0) : op \in {EBPF_OP_JEQ_REG, EBPF_OP_JNE_REG},
                                 d \in DstRegs, s \in SrcRegs}

(***************************************************************************)
(* The caller: one accumulator `to`, and the record of the last call       *)
(***************************************************************************)
NoState == [bot |-> TRUE, reg |-> [r \in Regs |-> abs_top]]

NoRet == [fail |-> FALSE, errmsg |-> NoError]

CallRec(op, pre, from, inst, imm, taken, pc, ret) ==
    [op |-> op, pre |-> pre, from |-> from, inst |-> inst, imm |-> imm,
     taken |-> taken, pc |-> pc, ret |-> ret]

NoCall == CallRec("none", NoState, NoState, NoInst, 0, FALSE, 0, NoRet)

\* same abstract element: value fields of top registers are not compared
AbsEq(a, b) ==
    /\ a.bot = b.bot
    /\ \A r \in Regs :
         /\ a.reg[r].known = b.reg[r].known
         /\ a.reg[r].known => a.reg[r].value = b.reg[r].value

InitializeEntry ==
    /\ to' = abs_initialize_entry(to)
    /\ call' = CallRec("entry", to, NoState, NoInst, 0, FALSE, 0, NoRet)

InitializeUnreached ==
    /\ to' = abs_initialize_unreached(to)
    /\ call' = CallRec("unreached", to, NoState, NoInst, 0, FALSE, 0, NoRet)

Join(other) ==
    /\ to' = abs_join(to, other)
    /\ call' = CallRec("join", to, other, NoInst, 0, FALSE, 0, NoRet)

Execute(from, inst, imm) ==
    /\ to' = abs_execute(to, from, inst, imm)
    /\ call' = CallRec("execute", to, from, inst, imm, FALSE, 0, NoRet)

ExecuteAssume(from, inst, taken) ==
    /\ to' = abs_execute_assume(to, from, inst, taken)
    /\ call' = CallRec("assume", to, from, inst, 0, taken, 0, NoRet)

BoundsFail(inst, pc) ==
    /\ to' = to
    /\ call' = CallRec("bounds", to, NoState, inst, 0, FALSE, pc,
                       abs_bounds_fail(to, inst, pc))

DivzeroFail(inst, pc) ==
    /\ to' = to
    /\ call' = CallRec("divzero", to, NoState, inst, 0, FALSE, pc,
                       abs_divzero_fail(to, inst, pc))

\* number of times the accumulator changed since it became reachable
Count ==
    changes' = IF to.bot \/ to'.bot THEN 0
               ELSE IF AbsEq(to, to') THEN changes
               ELSE changes + 1

Init ==
    /\ to \in InputStates
    /\ call = NoCall
    /\ changes = 0

\* the caller takes the result; the accumulator is then ready for the next call
Return ==
    /\ call.op # "none"
    /\ call' = NoCall
    /\ UNCHANGED <<to, changes>>

Idle == call.op = "none"

Next ==
    \/ Idle /\ InitializeEntry /\ Count
    \/ Idle /\ InitializeUnreached /\ Count
    \/ Idle /\ \E other \in InputStates : Join(other) /\ Count
    \/ Idle /\ \E from \in ReachableInputs, inst \in ExecInsts :
         \E imm \in SecondImms(inst) : Execute(from, inst, imm) /\ Count
    \/ Idle /\ \E from \in ReachableInputs, inst \in AssumeInsts, taken \in BOOLEAN :
         ExecuteAssume(from, inst, taken) /\ Count
    \/ Return

Spec == Init /\ [][Next]_vars

(***************************************************************************)
(* Accumulation: every register can fall from known to top on its own      *)
(***************************************************************************)
\* registers below k are top, the others hold the same constant
ChainState(k) ==
    [bot |-> FALSE,
     reg |-> [r \in Regs |-> IF r < k THEN abs_top ELSE Known(Val(1))]]

ChainStates == {ChainState(k) : k \in 0..NumRegs}

AccumInsts ==
    {Inst(EBPF_OP_CALL, 0, 0, 0, 0), Inst(EBPF_OP_EXIT, 0, 0, 0, 0)}
    \cup {Inst(EBPF_OP_MOV64_IMM, d, 0, 0, i) : d \in DstRegs, i \in 1..MaxVal}
    \cup {Inst(EBPF_OP_LDDW, d, 0, 0, 1) : d \in DstRegs}

AccumAssumeInsts ==
    {Inst(EBPF_OP_JEQ_IMM, d, 0, 0, i) : d \in DstRegs, i \in 1..MaxVal}
    \cup {Inst(EBPF_OP_JEQ_REG, d, s, 0, 0) : d \in DstRegs, s \in SrcRegs}

InitAccum ==
    /\ to = NoState
    /\ call = NoCall
    /\ changes = 0

NextAccum ==
    \/ Idle /\ \E other \in ChainStates : Join(other) /\ Count
    \/ Idle /\ \E from \in ChainStates, inst \in AccumInsts :
         \E imm \in SecondImms(inst) : Execute(from, inst, imm) /\ Count
    \/ Idle /\ \E from \in ChainStates, inst \in AccumAssumeInsts, taken \in BOOLEAN :
         ExecuteAssume(from, inst, taken) /\ Count
    \/ Return

SpecAccum == InitAccum /\ [][NextAccum]_vars

(***************************************************************************)
(* The safety predicates, asked of a state for one instruction             *)
(***************************************************************************)
Pow32 == <<0, 1, 0, 0>>

DivCells ==
    {abs_top, Top(Val(1)), Known(Zero64), Known(Pow32),
     Known(<<LimbBase - 1, LimbBase - 1, 0, 0>>)}
    \cup {Known(Val(n)) : n \in 1..MaxVal}
    \cup {Known(<<0, 1, 0, n>>) : n \in 1..MaxVal}

PredStates == {MkState(FALSE, abs_top, c1, abs_top) : c1 \in DivCells}

Opcodes == 0..255

AddrRegs == {1, 2, 10}

Offsets == {-32768, -STACK_SIZE - 1, -STACK_SIZE, -8, -7, -4, -3, -2, -1, 0, 1,
            4088, 4089, 4092, 4093, 4094, 4095, 4096, 32767}

BoundsInsts == {Inst(op, d, s, off, 0) : op \in Opcodes, d \in AddrRegs,
                                         s \in AddrRegs, off \in Offsets}

DivInsts == {Inst(op, 0, s, 0, 0) : op \in Opcodes, s \in {0, 1}}

InitPred ==
    /\ to \in PredStates
    /\ call = NoCall
    /\ changes = 0

NextPred ==
    \/ Idle /\ \E inst \in BoundsInsts, pc \in 0..MaxPc :
         BoundsFail(inst, pc) /\ UNCHANGED changes
    \/ Idle /\ \E inst \in DivInsts, pc \in 0..MaxPc :
         DivzeroFail(inst, pc) /\ UNCHANGED changes
    \/ Return

SpecPred == InitPred /\ [][NextPred]_vars

(***************************************************************************)
(* Properties                                                              *)
(***************************************************************************)
IsJoin == call.op = "join"
IsExecute(op) == call.op = "execute" /\ call.inst.opcode = op

\* C1: after abs_join(a, b) of two reachable states, a register that is
\* known in the result was known with that value in both a and b, for
\* every register 0..10.
JoinSound ==
    (IsJoin /\ ~call.pre.bot /\ ~call.from.bot) =>
        \A r \in Regs :
            to.reg[r].known =>
                /\ call.pre.reg[r] = Known(to.reg[r].value)
                /\ call.from.reg[r] = Known(to.reg[r].value)

LoadOps == {97, 105, 113, 121}
StoreOps == {98, 106, 114, 122, 99, 107, 115, 123}

WidthOf(op) ==
    CASE op \in {113, 114, 115} -> 1
      [] op \in {105, 106, 107} -> 2
      [] op \in {97, 98, 99} -> 4
      [] op \in {121, 122, 123} -> 8

BoundsExpected(inst) ==
    IF inst.opcode \in LoadOps \cup StoreOps
    THEN LET w == WidthOf(inst.opcode)
             a == IF inst.opcode \in LoadOps THEN inst.src ELSE inst.dst
         IN  \/ a = 10 /\ ~(inst.offset + w <= 0 /\ inst.offset >= -STACK_SIZE)
             \/ a = 1 /\ ~(inst.offset >= 0 /\ inst.offset + w <= 4096)
             \/ a \notin {1, 10}
    ELSE FALSE

\* C2: abs_bounds_fail follows the decision table (stack through r10,
\* context through r1, every other base fails, non-memory opcodes never
\* fail), and its verdict does not depend on the abstract state.
BoundsTable ==
    call.op = "bounds" =>
        /\ call.ret.fail = BoundsExpected(call.inst)
        /\ \A s \in PredStates :
             abs_bounds_fail(s, call.inst, call.pc).fail = call.ret.fail

BoundsTableWitness ==
    \/ /\ call.op = "bounds"
       /\ call.inst = Inst(123, 10, 1, -8, 0)
       /\ ~call.ret.fail
    \/ /\ call.op = "bounds"
       /\ call.inst = Inst(97, 10, 1, 4093, 0)
       /\ call.ret.fail

DivModOps == {52, 60, 55, 63, 148, 156, 151, 159}
Alu64Ops == {55, 63, 151, 159}

\* C3: on an ALU or ALU64 division or modulo, abs_divzero_fail is true
\* exactly when the source register is top, or known and zero in 64 bits
\* (ALU64) or zero in its low 32 bits (ALU).
DivzeroVerdict ==
    (call.op = "divzero" /\ call.inst.opcode \in DivModOps) =>
        LET c == call.pre.reg[call.inst.src]
        IN  call.ret.fail =
              \/ ~c.known
              \/ call.inst.opcode \in Alu64Ops /\ c.value = Zero64
              \/ call.inst.opcode \notin Alu64Ops /\ c.value[3] = 0 /\ c.value[4] = 0

DivzeroVerdictWitness ==
    /\ call.op = "divzero"
    /\ call.inst.opcode = 60
    /\ call.pre.reg[call.inst.src] = Known(Pow32)
    /\ call.ret.fail

\* C4: for every opcode that is not an ALU or ALU64 division or modulo,
\* abs_divzero_fail returns false and leaves no error, in every state.
DivzeroOnlyDivMod ==
    (call.op = "divzero" /\ call.inst.opcode \notin DivModOps) =>
        /\ ~call.ret.fail
        /\ call.ret.errmsg = NoError

\* C5: after abs_initialize_entry the state is reachable and all 11
\* registers are top, whatever the state held before.
EntryReachable ==
    call.op = "entry" =>
        /\ ~to.bot
        /\ \A r \in Regs : ~to.reg[r].known

WideValue(imm, imm2) ==
    <<(imm2 \div LimbBase) % LimbBase, imm2 % LimbBase,
      (imm \div LimbBase) % LimbBase, imm % LimbBase>>

\* C6: after abs_execute of LDDW from a reachable state into an
\* unreachable accumulator, the destination is known with value
\* imm32 | (secondary_imm << 32) and the other registers equal from's.
WideLoadKnown ==
    (IsExecute(EBPF_OP_LDDW) /\ call.pre.bot /\ ~call.from.bot) =>
        /\ to.reg[call.inst.dst] = Known(WideValue(call.inst.imm, call.imm))
        /\ \A r \in Regs \ {call.inst.dst} : to.reg[r] = call.from.reg[r]

\* C7: after abs_execute of CALL from a reachable state into an
\* unreachable accumulator, r0..r5 are top and r6..r10 equal from's.
CallEffect ==
    (IsExecute(EBPF_OP_CALL) /\ call.pre.bot /\ ~call.from.bot) =>
        /\ \A r \in 0..5 : ~to.reg[r].known
        /\ \A r \in 6..10 : to.reg[r] = call.from.reg[r]

CallEffectWitness ==
    /\ IsExecute(EBPF_OP_CALL)
    /\ call.pre.bot
    /\ ~call.from.bot
    /\ call.from.reg[0].known
    /\ call.from.reg[1].known
    /\ call.from.reg[6].known
    /\ to.reg[6].known

IsRegEquality ==
    \/ call.taken /\ call.inst.opcode = EBPF_OP_JEQ_REG
    \/ ~call.taken /\ call.inst.opcode = EBPF_OP_JNE_REG

\* C8: abs_execute_assume never lets the value field of a top register
\* influence the result: two from states that are the same abstract
\* element give the same abstract accumulator, and register equality makes
\* the destination known only with a value the source is known to hold.
AssumeIgnoresTopValues ==
    call.op = "assume" =>
        /\ \A f2 \in ReachableInputs :
             AbsEq(f2, call.from) =>
                AbsEq(abs_execute_assume(call.pre, f2, call.inst, call.taken), to)
        /\ (IsRegEquality /\ call.pre.bot /\ to.reg[call.inst.dst].known) =>
                call.from.reg[call.inst.src] = Known(to.reg[call.inst.dst].value)

\* C9: abs_join(s, b) with s reachable and b unreachable leaves every
\* register and the reachability flag of s unchanged.
JoinBottomOther ==
    (IsJoin /\ ~call.pre.bot /\ call.from.bot) => AbsEq(to, call.pre)

\* C10: under abs_join, abs_execute and abs_execute_assume a reachable
\* accumulator stays reachable, each register keeps its abstract value or
\* falls from known to top, and the accumulator changes at most 10 times.
MonotoneAccumulation ==
    /\ [](changes <= 10)
    /\ [][(~to.bot /\ call'.op \in {"join", "execute", "assume"}) =>
            /\ ~to'.bot
            /\ \A r \in Regs :
                 to'.reg[r].known => to.reg[r] = Known(to'.reg[r].value)]_vars

MonotoneAccumulationWitness ==
    /\ ~to.bot
    /\ changes = 10
    /\ \A r \in 1..10 : ~to.reg[r].known

====
